---- MODULE Spec2Model ----
(***************************************************************************)
(* Model of the stock-prediction backend: the /candles date normalisation  *)
(* and historical fetch (backend/main.py, backend/services/data_source.py, *)
(* services/upstox_client.py), the /ws/ltp_v3 relay handler                *)
(* (backend/main.py), the per-instrument stream runner cache               *)
(* (get_stream_runner / stream_ltp), get_trade_signal                      *)
(* (services/openai_signals.py) and add_indicators                         *)
(* (services/indicators.py).                                               *)
(***************************************************************************)
EXTENDS Integers, Sequences, FiniteSets, TLC

(***************************************************************************)
(* Bounds of the model.                                                    *)
(***************************************************************************)
\* first to_date of the request window, as a proleptic Gregorian ordinal
\* (date.toordinal()); 738944 is 2024-02-28, so the window crosses a leap day
DateBase == 738944
\* the to_date window is DateBase .. DateBase + MaxDay
MaxDay == 1
\* from_date is taken at distances 0..MaxOff from to_date, on both sides,
\* and at the distances around every lookback limit (see Offsets)
MaxOff == 2
\* provider timestamps are 1..MaxTs, a provider answer has at most MaxRows rows
MaxTs == 2
MaxRows == 2

None == <<>>
Some(x) == <<x>>
Val(o) == o[1]

(***************************************************************************)
(* The state.                                                              *)
(***************************************************************************)
\* historical requests
VARIABLES
    access_token,   \* data_source._access_token: None or Some(token)
    client_token,   \* services/upstox_client._access_token
    cpc,            \* position of the historical request in flight
    body,           \* the request being served
    fetch,          \* the arguments get_historical_candles was called with
    attempts,       \* attempts of the @retry wrapper made so far
    httpLog,        \* provider HTTP requests issued for this request
    payload,        \* the candle rows of the provider's answer, as it sent them
    outcomes,       \* how each attempt made so far ended: "ok" or "failed"
    resp            \* what the caller got

candleVars == <<access_token, client_token, cpc, body, fetch, attempts, httpLog,
                payload, outcomes, resp>>

\* /ws/ltp_v3 handler runs, one per downstream client
VARIABLES
    wpc,        \* position of each handler run
    winst,      \* instrument_key query parameter, None when missing
    wtoken,     \* access_token query parameter, None when missing
    peer,       \* the downstream client: "none", "connected", "gone"
    wsClose,    \* close codes the handler sent on the client socket
    auths,      \* authorization exchanges the run performed
    up,         \* the run's upstream connection: "none", "open", "lost", "closed"
    upOpened,   \* upstream connections the run opened
    upClosed,   \* times the run closed its upstream connection
    sentUp,     \* frames the upstream sent on the connection, in order
    queue,      \* frames arrived and not yet read by recv()
    cur,        \* the decoded event being sent downstream
    delivered,  \* events the downstream client was sent, in order
    printed     \* what the run printed, in order

relayVars == <<wpc, winst, wtoken, peer, wsClose, auths, up, upOpened, upClosed,
               sentUp, queue, cur, delivered, printed>>

\* the stream runners of get_stream_runner
VARIABLES
    runners,     \* the _WSRunner objects created per instrument_key, in order
    ws_cache,    \* data_source._ws_cache: instrument_key -> the number of its
                 \* runner in runners, or NoRunner
    threads,     \* connection threads started per instrument_key
    registered,  \* the get_stream_runner calls per instrument_key, in order
    streamed,    \* messages the feed of an instrument_key has delivered
    received     \* what each on_message callback was called with, in order

runnerVars == <<runners, ws_cache, threads, registered, streamed, received>>

\* get_trade_signal calls
VARIABLES
    spc,       \* position of the get_trade_signal call in flight
    sargs,     \* its arguments and the API_KEY_OPENAI of the environment
    sfail,     \* the internal failure the call met, "none" when it met none
    sres,      \* the dict the call returned, None when it returned nothing
    sraised    \* the exception the call raised to its caller, None when none

signalVars == <<spc, sargs, sfail, sres, sraised>>

\* add_indicators calls
VARIABLES
    ipc,    \* position of the add_indicators call
    df,     \* the frame it was called with
    out     \* the frame it returned

indVars == <<ipc, df, out>>

(***************************************************************************)
(* Dates.  A datetime.date is its ordinal; date - timedelta(days=n) is     *)
(* integer subtraction.  isoformat() renders the ordinal as "YYYY-MM-DD",  *)
(* modelled as the triple <<year, month, day>> of the fields of that text. *)
(***************************************************************************)
IsLeap(y) == (y % 4 = 0) /\ ((y % 100 # 0) \/ (y % 400 = 0))

DaysInMonth(y, m) ==
    CASE m \in {1, 3, 5, 7, 8, 10, 12} -> 31
      [] m \in {4, 6, 9, 11} -> 30
      [] OTHER -> IF IsLeap(y) THEN 29 ELSE 28

\* days before January 1st of year y (ordinal of Dec 31st of year y-1)
DaysBeforeYear(y) ==
    LET p == y - 1 IN 365 * p + (p \div 4) - (p \div 100) + (p \div 400)

RECURSIVE DaysBeforeMonth(_, _)
DaysBeforeMonth(y, m) ==
    IF m = 1 THEN 0 ELSE DaysBeforeMonth(y, m - 1) + DaysInMonth(y, m - 1)

\* date(y, m, d).toordinal()
ToOrdinal(ymd) ==
    DaysBeforeYear(ymd[1]) + DaysBeforeMonth(ymd[1], ymd[2]) + ymd[3]

\* date.fromordinal(n).isoformat(), as the fields <<year, month, day>>
IsoFormat(n) ==
    LET y0 == ((n - 1) * 400) \div 146097 + 1
        y  == IF DaysBeforeYear(y0 + 1) < n THEN y0 + 1
              ELSE IF DaysBeforeYear(y0) >= n THEN y0 - 1 ELSE y0
        doy == n - DaysBeforeYear(y)
        m  == CHOOSE k \in 1..12 :
                 /\ DaysBeforeMonth(y, k) < doy
                 /\ doy <= DaysBeforeMonth(y, k) + DaysInMonth(y, k)
    IN <<y, m, doy - DaysBeforeMonth(y, m)>>

\* the date a provider reads from an ISO date text
ParseIso(s) == ToOrdinal(s)

(***************************************************************************)
(* Historical candles: request surface and interval policy.                *)
(***************************************************************************)
Intervals == {"1minute", "30minute", "day", "week", "month"}
\* tags outside the enumerated set that a caller may still send
OtherIntervals == {"5minute", "hour"}

\* main.py: interval_allowed, max lookback window in days
interval_allowed(interval) ==
    CASE interval = "1minute" -> 30
      [] interval = "30minute" -> 90
      [] interval = "day" -> 3650
      [] interval = "week" -> 3650
      [] interval = "month" -> 3650

\* main.py: unit_interval_map, UI interval -> Upstox v3 (unit, interval)
unit_interval_map(interval) ==
    CASE interval = "1minute" -> <<"minutes", "1">>
      [] interval = "30minute" -> <<"minutes", "30">>
      [] interval = "day" -> <<"days", "1">>
      [] interval = "week" -> <<"weeks", "1">>
      [] interval = "month" -> <<"months", "1">>

\* upstox_client.py: gran_map.get(interval, ("day", 1))
gran_map_get(interval) ==
    CASE interval = "1minute" -> <<"minute", "1">>
      [] interval = "30minute" -> <<"minute", "30">>
      [] interval = "day" -> <<"day", "1">>
      [] interval = "week" -> <<"week", "1">>
      [] interval = "month" -> <<"month", "1">>
      [] OTHER -> <<"day", "1">>

\* main.py: start = body.from_date or (end - timedelta(days=max_lookback_days - 1))
DefaultStart(from_date, end, max_lookback_days) ==
    IF from_date = None THEN end - (max_lookback_days - 1) ELSE Val(from_date)

\* Chronological without the swap
Chronological_NoSwap(start, end) == <<start, end>>

\* main.py: if start > end: start, end = end, start
Chronological(start, end) ==
    IF start > end THEN <<end, start>> ELSE <<start, end>>

\* ClampStart with the floor one day too early
ClampStart_FullWindow(start, end, max_lookback_days) ==
    LET min_allowed == end - max_lookback_days
    IN IF start < min_allowed THEN min_allowed ELSE start

\* ClampStart without the clamp
ClampStart_NoClamp(start, end, max_lookback_days) == start

\* main.py: min_allowed = end - timedelta(...); if start < min_allowed: start = min_allowed
ClampStart(start, end, max_lookback_days) ==
    LET min_allowed == end - (max_lookback_days - 1)
    IN IF start < min_allowed THEN min_allowed ELSE start

\* main.py candles(), "Normalize dates" .. "Clamp start to allowed range":
\* the <<start, end>> dates the handler ends with
NormalizeDates(interval, from_date, to_date) ==
    LET max_lookback_days == interval_allowed(interval)
        ordered == Chronological(DefaultStart(from_date, to_date, max_lookback_days),
                                 to_date)
    IN <<ClampStart(ordered[1], ordered[2], max_lookback_days), ordered[2]>>

(***************************************************************************)
(* Candle shaping: df.sort_values("time") on the provider rows.  A row is  *)
(* its timestamp.                                                          *)
(***************************************************************************)
RECURSIVE InsertByTime(_, _)
InsertByTime(sorted, t) ==
    IF sorted = <<>> THEN <<t>>
    ELSE IF t < Head(sorted) THEN <<t>> \o sorted
    ELSE <<Head(sorted)>> \o InsertByTime(Tail(sorted), t)

\* the rows as the provider sent them
SortByTime_AsSent(rows) == rows

RECURSIVE SortByTime(_)
SortByTime(rows) ==
    IF rows = <<>> THEN <<>>
    ELSE InsertByTime(SortByTime(SubSeq(rows, 1, Len(rows) - 1)), rows[Len(rows)])

\* the answers of the provider: up to MaxRows rows with timestamps 1..MaxTs
ProviderRows == UNION {[1..n -> 1..MaxTs] : n \in 0..MaxRows}

(***************************************************************************)
(* The requests of the model.                                              *)
(***************************************************************************)
ToDates == DateBase..(DateBase + MaxDay)

Offsets ==
    (0..MaxOff) \cup
    UNION {(interval_allowed(i) - 2)..(interval_allowed(i) + 1) : i \in Intervals}

FromDates(to_date) ==
    {None} \cup {Some(to_date - d) : d \in Offsets} \cup {Some(to_date + d) : d \in Offsets}

InstrumentKey == "NSE_EQ|INE002A01018"

NoBody == [entry |-> "none", interval |-> "", from_date |-> None, to_date |-> 0]
NoFetch == [unit |-> "", interval |-> "", to_date |-> <<>>, from_date |-> None]
NoResp == [status |-> "none", candles |-> <<>>]

CandleInit ==
    /\ access_token = None
    /\ client_token = None
    /\ cpc = "idle"
    /\ body = NoBody
    /\ fetch = NoFetch
    /\ attempts = 0
    /\ httpLog = <<>>
    /\ payload = <<>>
    /\ outcomes = <<>>
    /\ resp = NoResp

\* data_source.set_access_token, reached from /auth/callback
SetAccessToken ==
    /\ cpc = "idle"
    /\ access_token = None
    /\ access_token' = Some("token")
    /\ UNCHANGED <<client_token, cpc, body, fetch, attempts, httpLog, payload,
                   outcomes, resp>>
    /\ UNCHANGED <<relayVars, runnerVars, signalVars, indVars>>

\* services/upstox_client.set_access_token
ClientSetAccessToken ==
    /\ cpc = "idle"
    /\ client_token = None
    /\ client_token' = Some("token")
    /\ UNCHANGED <<access_token, cpc, body, fetch, attempts, httpLog, payload,
                   outcomes, resp>>
    /\ UNCHANGED <<relayVars, runnerVars, signalVars, indVars>>

\* main.py: if body.interval not in interval_allowed: raise HTTPException(400)
IntervalRecognized(interval) == interval \in Intervals

\* main.py candles(): validation, date normalisation and the call of
\* get_historical_candles (whose attempts are the steps of BackendAttempt)
Candles(interval, from_date, to_date) ==
    /\ cpc = "idle"
    /\ body' = [entry |-> "candles", interval |-> interval,
                from_date |-> from_date, to_date |-> to_date]
    /\ attempts' = 0
    /\ httpLog' = <<>>
    /\ payload' = <<>>
    /\ outcomes' = <<>>
    /\ IF ~IntervalRecognized(interval)
       THEN /\ resp' = [status |-> "invalid_interval", candles |-> <<>>]
            /\ fetch' = NoFetch
            /\ cpc' = "done"
       ELSE LET range == NormalizeDates(interval, from_date, to_date)
                ui == unit_interval_map(interval)
            IN /\ fetch' = [unit |-> ui[1], interval |-> ui[2],
                            to_date |-> IsoFormat(range[2]),
                            from_date |-> Some(IsoFormat(range[1]))]
               /\ resp' = NoResp
               /\ cpc' = "fetch"
    /\ UNCHANGED <<access_token, client_token>>
    /\ UNCHANGED <<relayVars, runnerVars, signalVars, indVars>>

\* tenacity: @retry(stop=stop_after_attempt(3), wait=wait_fixed(1))
stop_after_attempt == 3

\* the last failure swallowed: the caller gets an empty frame
AttemptFailed_EmptyFrame(next_pc) ==
    /\ attempts' = attempts + 1
    /\ payload' = payload
    /\ outcomes' = Append(outcomes, "failed")
    /\ IF attempts + 1 >= stop_after_attempt
       THEN /\ resp' = [status |-> "ok", candles |-> <<>>]
            /\ cpc' = "done"
       ELSE /\ resp' = resp
            /\ cpc' = next_pc

\* what one failed attempt leads to: another attempt, or the error after the last
AttemptFailed(next_pc) ==
    /\ attempts' = attempts + 1
    /\ payload' = payload
    /\ outcomes' = Append(outcomes, "failed")
    /\ IF attempts + 1 >= stop_after_attempt
       THEN /\ resp' = [status |-> "error", candles |-> <<>>]
            /\ cpc' = "done"
       ELSE /\ resp' = resp
            /\ cpc' = next_pc

\* a success that does not stop the retrying before the last attempt
AttemptSucceeded_KeepsTrying(rows) ==
    /\ attempts' = attempts + 1
    /\ payload' = rows
    /\ outcomes' = Append(outcomes, "ok")
    /\ resp' = [status |-> "ok", candles |-> SortByTime(rows)]
    /\ cpc' = IF attempts + 1 >= stop_after_attempt THEN "done" ELSE cpc

\* what a successful attempt returns: the rows of the answer sorted by time
AttemptSucceeded(rows) ==
    /\ attempts' = attempts + 1
    /\ payload' = rows
    /\ outcomes' = Append(outcomes, "ok")
    /\ resp' = [status |-> "ok", candles |-> SortByTime(rows)]
    /\ cpc' = "done"

\* data_source.get_historical_candles: one attempt
BackendAttempt ==
    /\ cpc = "fetch"
    /\ IF access_token = None
       THEN /\ AttemptFailed("fetch")
            /\ httpLog' = httpLog
       ELSE /\ httpLog' = Append(httpLog, fetch)
            /\ \/ \E rows \in ProviderRows : AttemptSucceeded(rows)
               \/ AttemptFailed("fetch")
    /\ UNCHANGED <<access_token, client_token, body, fetch>>
    /\ UNCHANGED <<relayVars, runnerVars, signalVars, indVars>>

\* services/upstox_client.get_historical_candles(instrument_key, interval,
\* start_date, end_date): the call; its attempts are the steps of ClientAttempt
ClientGetHistoricalCandles(interval, start_date, end_date) ==
    /\ cpc = "idle"
    /\ body' = [entry |-> "client", interval |-> interval,
                from_date |-> start_date, to_date |-> end_date]
    /\ attempts' = 0
    /\ httpLog' = <<>>
    /\ payload' = <<>>
    /\ outcomes' = <<>>
    /\ resp' = NoResp
    /\ fetch' = NoFetch
    /\ cpc' = "cfetch"
    /\ UNCHANGED <<access_token, client_token>>
    /\ UNCHANGED <<relayVars, runnerVars, signalVars, indVars>>

\* services/upstox_client.get_historical_candles: one attempt
ClientAttempt ==
    /\ cpc = "cfetch"
    /\ IF client_token = None
       THEN /\ AttemptFailed("cfetch")
            /\ httpLog' = httpLog
            /\ fetch' = fetch
       ELSE LET g == gran_map_get(body.interval)
                url == [unit |-> g[1], interval |-> g[2],
                        to_date |-> IsoFormat(body.to_date),
                        from_date |-> IF body.from_date = None THEN None
                                      ELSE Some(IsoFormat(Val(body.from_date)))]
            IN /\ fetch' = url
               /\ httpLog' = Append(httpLog, url)
               /\ \/ \E rows \in ProviderRows : AttemptSucceeded(rows)
                  \/ AttemptFailed("cfetch")
    /\ UNCHANGED <<access_token, client_token, body>>
    /\ UNCHANGED <<relayVars, runnerVars, signalVars, indVars>>

\* the caller has its answer; the next request may start
CandleReturn ==
    /\ cpc = "done"
    /\ cpc' = "idle"
    /\ body' = NoBody
    /\ fetch' = NoFetch
    /\ attempts' = 0
    /\ httpLog' = <<>>
    /\ payload' = <<>>
    /\ outcomes' = <<>>
    /\ resp' = NoResp
    /\ UNCHANGED <<access_token, client_token>>
    /\ UNCHANGED <<relayVars, runnerVars, signalVars, indVars>>

CandleNext ==
    \/ SetAccessToken
    \/ ClientSetAccessToken
    \/ \E i \in Intervals \cup OtherIntervals, t \in ToDates :
          \E f \in FromDates(t) : Candles(i, f, t)
    \/ BackendAttempt
    \/ \E i \in Intervals \cup OtherIntervals, t \in ToDates :
          \E f \in FromDates(t) : ClientGetHistoricalCandles(i, f, t)
    \/ ClientAttempt
    \/ CandleReturn

(***************************************************************************)
(* /ws/ltp_v3: one run of the handler ws_ltp_v3 per downstream client.     *)
(***************************************************************************)
\* upstream frames one connection delivers in the model
MaxFrames == 2

Clients == {"c1", "c2"}
Instruments == {"NSE_EQ|INE002A01018", "NSE_INDEX|Nifty 50"}

\* an upstream binary frame: the n-th of its connection, a serialized
\* FeedResponse ("pb") or bytes that are none ("junk")
Frame(kind, n) == <<kind, n>>
Frames(n) == {Frame("pb", n), Frame("junk", n)}
NoEvent == [feed |-> 0]

\* main.py decode_protobuf + MessageToDict: the dict of a well-formed frame;
\* ParseFromString raises DecodeError on the others
Decodes(frame) == frame[1] = "pb"
decode_protobuf(frame) == [feed |-> frame[2]]

\* upstream.recv() hands out the oldest frame not yet read
NextFrame_Newest(q) == q[Len(q)]
NextFrame(q) == Head(q)

RelayInit ==
    /\ wpc = [c \in Clients |-> "idle"]
    /\ winst = [c \in Clients |-> None]
    /\ wtoken = [c \in Clients |-> None]
    /\ peer = [c \in Clients |-> "none"]
    /\ wsClose = [c \in Clients |-> <<>>]
    /\ auths = [c \in Clients |-> 0]
    /\ up = [c \in Clients |-> "none"]
    /\ upOpened = [c \in Clients |-> 0]
    /\ upClosed = [c \in Clients |-> 0]
    /\ sentUp = [c \in Clients |-> <<>>]
    /\ queue = [c \in Clients |-> <<>>]
    /\ cur = [c \in Clients |-> NoEvent]
    /\ delivered = [c \in Clients |-> <<>>]
    /\ printed = [c \in Clients |-> <<>>]

\* an exit from the relay loop that leaves the upstream connection as it is
ExitUpstream_LeftOpen(c) ==
    UNCHANGED <<up, upClosed>>

\* leaving "async with websockets.connect(...) as upstream": the connection
\* is closed, whatever state it was in
ExitUpstream(c) ==
    /\ up' = [up EXCEPT ![c] = "closed"]
    /\ upClosed' = [upClosed EXCEPT ![c] = @ + 1]

\* "except Exception as e": print("Stream error:", e) and await ws.close();
\* the handler returns
ExceptException(c, e) ==
    /\ printed' = [printed EXCEPT ![c] = Append(@, <<"Stream error:", e>>)]
    /\ wsClose' = [wsClose EXCEPT ![c] = Append(@, 1000)]
    /\ wpc' = [wpc EXCEPT ![c] = "returned"]

\* "except WebSocketDisconnect": print only; the handler returns
ExceptDisconnect(c) ==
    /\ printed' = [printed EXCEPT ![c] = Append(@, <<"Client disconnected">>)]
    /\ wsClose' = wsClose
    /\ wpc' = [wpc EXCEPT ![c] = "returned"]

\* ws.accept(), the query parameters, and the check of both
WsAccept(c, inst_key, token) ==
    /\ wpc[c] = "idle"
    /\ peer' = [peer EXCEPT ![c] = "connected"]
    /\ winst' = [winst EXCEPT ![c] = inst_key]
    /\ wtoken' = [wtoken EXCEPT ![c] = token]
    /\ IF inst_key = None \/ token = None
       THEN /\ wsClose' = [wsClose EXCEPT ![c] = Append(@, 1003)]
            /\ wpc' = [wpc EXCEPT ![c] = "returned"]
       ELSE /\ wsClose' = wsClose
            /\ wpc' = [wpc EXCEPT ![c] = "authorize"]
    /\ UNCHANGED <<auths, up, upOpened, upClosed, sentUp, queue, cur, delivered,
                   printed>>
    /\ UNCHANGED <<candleVars, runnerVars, signalVars, indVars>>

\* Step 1: get_market_data_feed_authorize_v3(token); raise_for_status may raise
WsAuthorize(c) ==
    /\ wpc[c] = "authorize"
    /\ auths' = [auths EXCEPT ![c] = @ + 1]
    /\ \/ /\ wpc' = [wpc EXCEPT ![c] = "connect"]
          /\ UNCHANGED <<wsClose, printed>>
       \/ ExceptException(c, "HTTPError")
    /\ UNCHANGED <<winst, wtoken, peer, up, upOpened, upClosed, sentUp, queue,
                   cur, delivered>>
    /\ UNCHANGED <<candleVars, runnerVars, signalVars, indVars>>

\* one upstream connection shared by the runs of an instrument_key
OpenUpstream_Shared(c) ==
    IF \E d \in Clients \ {c} : winst[d] = winst[c] /\ up[d] = "open"
    THEN UNCHANGED <<up, upOpened>>
    ELSE /\ up' = [up EXCEPT ![c] = "open"]
         /\ upOpened' = [upOpened EXCEPT ![c] = @ + 1]

\* websockets.connect(wss_url, ssl=ssl_context) succeeded: the run has its
\* own upstream connection
OpenUpstream(c) ==
    /\ up' = [up EXCEPT ![c] = "open"]
    /\ upOpened' = [upOpened EXCEPT ![c] = @ + 1]

\* Step 2: websockets.connect(wss_url); it may fail
WsConnect(c) ==
    /\ wpc[c] = "connect"
    /\ \/ /\ OpenUpstream(c)
          /\ wpc' = [wpc EXCEPT ![c] = "subscribe"]
          /\ printed' = [printed EXCEPT ![c] =
                            Append(@, <<"Connected to Upstox Market Data Feed">>)]
          /\ wsClose' = wsClose
       \/ /\ ExceptException(c, "connect failed")
          /\ UNCHANGED <<up, upOpened>>
    /\ UNCHANGED <<winst, wtoken, peer, auths, upClosed, sentUp, queue, cur,
                   delivered>>
    /\ UNCHANGED <<candleVars, runnerVars, signalVars, indVars>>

\* Step 3: upstream.send(sub_req); it raises on a lost connection
WsSubscribe(c) ==
    /\ wpc[c] = "subscribe"
    /\ IF up[c] = "open"
       THEN /\ wpc' = [wpc EXCEPT ![c] = "recv"]
            /\ UNCHANGED <<up, upClosed, wsClose, printed>>
       ELSE /\ ExitUpstream(c)
            /\ ExceptException(c, "ConnectionClosed")
    /\ UNCHANGED <<winst, wtoken, peer, auths, upOpened, sentUp, queue, cur,
                   delivered>>
    /\ UNCHANGED <<candleVars, runnerVars, signalVars, indVars>>

\* one re-authorization and reconnect after the upstream connection is lost
RecvRaised_Reconnect(c) ==
    IF auths[c] < 2
    THEN /\ ExitUpstream(c)
         /\ auths' = [auths EXCEPT ![c] = @ + 1]
         /\ wpc' = [wpc EXCEPT ![c] = "connect"]
         /\ UNCHANGED <<wsClose, printed>>
    ELSE /\ ExitUpstream(c)
         /\ ExceptException(c, "ConnectionClosed")
         /\ auths' = auths

\* upstream.recv() raised ConnectionClosed: the exception leaves the loop and
\* the "async with", and "except Exception" ends the run
RecvRaised(c) ==
    /\ ExitUpstream(c)
    /\ ExceptException(c, "ConnectionClosed")
    /\ auths' = auths

\* Step 4, first half: raw_msg = await upstream.recv(); decode_protobuf;
\* MessageToDict.  recv() raises once the connection is lost and drained.
WsRecv(c) ==
    /\ wpc[c] = "recv"
    /\ IF queue[c] # <<>>
       THEN LET raw_msg == NextFrame(queue[c])
            IN /\ queue' = [queue EXCEPT ![c] = Tail(@)]
               /\ auths' = auths
               /\ IF Decodes(raw_msg)
                  THEN /\ cur' = [cur EXCEPT ![c] = decode_protobuf(raw_msg)]
                       /\ wpc' = [wpc EXCEPT ![c] = "send"]
                       /\ UNCHANGED <<up, upClosed, wsClose, printed>>
                  ELSE /\ cur' = cur
                       /\ ExitUpstream(c)
                       /\ ExceptException(c, "DecodeError")
       ELSE /\ up[c] = "lost"
            /\ RecvRaised(c)
            /\ UNCHANGED <<queue, cur>>
    /\ UNCHANGED <<winst, wtoken, peer, upOpened, sentUp, delivered>>
    /\ UNCHANGED <<candleVars, runnerVars, signalVars, indVars>>

\* the failure of one delivery swallowed: the loop goes on to the next frame
SendRaised_Swallowed(c) ==
    /\ wpc' = [wpc EXCEPT ![c] = "recv"]
    /\ UNCHANGED <<up, upClosed, wsClose, printed>>

\* ws.send_json raised: the exception leaves the loop and the "async with";
\* it is a WebSocketDisconnect or another exception, as the server raises it
SendRaised(c) ==
    /\ ExitUpstream(c)
    /\ \/ ExceptDisconnect(c)
       \/ ExceptException(c, "send failed")

\* Step 4, second half: await ws.send_json(data_dict)
WsSend(c) ==
    /\ wpc[c] = "send"
    /\ IF peer[c] = "connected"
       THEN /\ delivered' = [delivered EXCEPT ![c] = Append(@, cur[c])]
            /\ wpc' = [wpc EXCEPT ![c] = "recv"]
            /\ UNCHANGED <<up, upClosed, wsClose, printed>>
       ELSE /\ delivered' = delivered
            /\ SendRaised(c)
    /\ cur' = [cur EXCEPT ![c] = NoEvent]
    /\ UNCHANGED <<winst, wtoken, peer, auths, upOpened, sentUp, queue>>
    /\ UNCHANGED <<candleVars, runnerVars, signalVars, indVars>>

\* the upstream feed sends the next frame on a subscribed connection
UpstreamFrame(c) ==
    /\ up[c] = "open"
    /\ wpc[c] \in {"recv", "send"}
    /\ Len(sentUp[c]) < MaxFrames
    /\ \E frame \in Frames(Len(sentUp[c]) + 1) :
          /\ sentUp' = [sentUp EXCEPT ![c] = Append(@, frame)]
          /\ queue' = [queue EXCEPT ![c] = Append(@, frame)]
    /\ UNCHANGED <<wpc, winst, wtoken, peer, wsClose, auths, up, upOpened,
                   upClosed, cur, delivered, printed>>
    /\ UNCHANGED <<candleVars, runnerVars, signalVars, indVars>>

\* the upstream connection is lost: network error, protocol error or close
UpstreamDisconnect(c) ==
    /\ up[c] = "open"
    /\ up' = [up EXCEPT ![c] = "lost"]
    /\ UNCHANGED <<wpc, winst, wtoken, peer, wsClose, auths, upOpened, upClosed,
                   sentUp, queue, cur, delivered, printed>>
    /\ UNCHANGED <<candleVars, runnerVars, signalVars, indVars>>

\* the downstream client goes away
ClientDisconnect(c) ==
    /\ peer[c] = "connected"
    /\ wpc[c] # "returned"
    /\ peer' = [peer EXCEPT ![c] = "gone"]
    /\ UNCHANGED <<wpc, winst, wtoken, wsClose, auths, up, upOpened, upClosed,
                   sentUp, queue, cur, delivered, printed>>
    /\ UNCHANGED <<candleVars, runnerVars, signalVars, indVars>>

RelayNext ==
    \E c \in Clients :
        \/ \E k \in {None} \cup {Some(i) : i \in Instruments},
              t \in {None, Some("token")} : WsAccept(c, k, t)
        \/ WsAuthorize(c)
        \/ WsConnect(c)
        \/ WsSubscribe(c)
        \/ WsRecv(c)
        \/ WsSend(c)
        \/ UpstreamFrame(c)
        \/ UpstreamDisconnect(c)
        \/ ClientDisconnect(c)

(***************************************************************************)
(* Stream runners: data_source.get_stream_runner and _WSRunner             *)
(* (services/upstox_client.stream_ltp is the same code).                   *)
(***************************************************************************)
\* get_stream_runner calls per instrument_key, messages per streamer
MaxCalls == 2
MaxMsgs == 2

Callbacks == {"cb1", "cb2"}
\* "instrument_key in _ws_cache" is false
NoRunner == 0

RunnerInit ==
    /\ runners = [k \in Instruments |-> <<>>]
    /\ ws_cache = [k \in Instruments |-> NoRunner]
    /\ threads = [k \in Instruments |-> 0]
    /\ registered = [k \in Instruments |-> <<>>]
    /\ streamed = [k \in Instruments |-> 0]
    /\ received = [cb \in Callbacks |-> <<>>]

\* a get_stream_runner call: its callback, the feed position when it was
\* made, and the runner it returned (NoRunner while it has not returned)
Call(on_message, since, runner) ==
    [on_message |-> on_message, since |-> since, runner |-> runner]

\* get_stream_runner: "if instrument_key in _ws_cache: return _ws_cache[...]"
CacheHit(instrument_key, on_message) ==
    /\ registered' = [registered EXCEPT ![instrument_key] =
                         Append(@, Call(on_message, streamed[instrument_key],
                                        ws_cache[instrument_key]))]
    /\ UNCHANGED <<runners, ws_cache, threads>>

\* get_stream_runner: the key was not in _ws_cache; the call goes on to
\* create its runner
CacheAbsent(instrument_key, on_message) ==
    /\ registered' = [registered EXCEPT ![instrument_key] =
                         Append(@, Call(on_message, streamed[instrument_key],
                                        NoRunner))]
    /\ UNCHANGED <<runners, ws_cache, threads>>

\* get_stream_runner(instrument_key, on_message) up to the test of the cache;
\* nothing holds a lock from the test to the insertion
GetStreamRunner(instrument_key, on_message) ==
    /\ Len(registered[instrument_key]) < MaxCalls
    /\ IF ws_cache[instrument_key] # NoRunner
       THEN CacheHit(instrument_key, on_message)
       ELSE CacheAbsent(instrument_key, on_message)
    /\ UNCHANGED <<streamed, received>>
    /\ UNCHANGED <<candleVars, relayVars, signalVars, indVars>>

\* get_stream_runner after a failed test, for the call numbered call:
\* r = _WSRunner(...); _ws_cache[instrument_key] = r; r.start(); return r
CacheMiss(instrument_key, call) ==
    /\ call \in DOMAIN registered[instrument_key]
    /\ registered[instrument_key][call].runner = NoRunner
    /\ runners' = [runners EXCEPT ![instrument_key] =
                      Append(@, [on_message |->
                                    registered[instrument_key][call].on_message,
                                 thread |-> "started"])]
    /\ ws_cache' = [ws_cache EXCEPT ![instrument_key] =
                       Len(runners[instrument_key]) + 1]
    /\ threads' = [threads EXCEPT ![instrument_key] = @ + 1]
    /\ registered' = [registered EXCEPT ![instrument_key][call].runner =
                         Len(runners[instrument_key]) + 1]
    /\ UNCHANGED <<streamed, received>>
    /\ UNCHANGED <<candleVars, relayVars, signalVars, indVars>>

\* _WSRunner._connect in the thread of runner r: raises without a token;
\* otherwise the streamer gets the runner's on_message and connects, which
\* may fail
RunnerConnect(instrument_key, r) ==
    /\ r \in DOMAIN runners[instrument_key]
    /\ runners[instrument_key][r].thread = "started"
    /\ IF access_token = None
       THEN runners' = [runners EXCEPT ![instrument_key][r].thread = "failed"]
       ELSE \E outcome \in {"connected", "failed"} :
               runners' = [runners EXCEPT ![instrument_key][r].thread = outcome]
    /\ UNCHANGED <<ws_cache, threads, registered, streamed, received>>
    /\ UNCHANGED <<candleVars, relayVars, signalVars, indVars>>

\* the connected runners of an instrument_key whose on_message is cb
Connected(instrument_key, cb) ==
    {r \in DOMAIN runners[instrument_key] :
        /\ runners[instrument_key][r].thread = "connected"
        /\ runners[instrument_key][r].on_message = cb}

\* the feed has a message: every connected streamer of the instrument_key
\* calls its handler, streamer.on("message", self.on_message)
StreamerMessage(instrument_key) ==
    /\ \E cb \in Callbacks : Connected(instrument_key, cb) # {}
    /\ streamed[instrument_key] < MaxMsgs
    /\ streamed' = [streamed EXCEPT ![instrument_key] = @ + 1]
    /\ received' =
          [cb \in Callbacks |->
              received[cb] \o
                  [n \in 1..Cardinality(Connected(instrument_key, cb)) |->
                      <<instrument_key, streamed[instrument_key] + 1>>]]
    /\ UNCHANGED <<runners, ws_cache, threads, registered>>
    /\ UNCHANGED <<candleVars, relayVars, signalVars, indVars>>

RunnerNext ==
    \/ SetAccessToken
    \/ \E k \in Instruments, cb \in Callbacks : GetStreamRunner(k, cb)
    \/ \E k \in Instruments, call \in 1..MaxCalls : CacheMiss(k, call)
    \/ \E k \in Instruments, r \in 1..MaxCalls : RunnerConnect(k, r)
    \/ \E k \in Instruments : StreamerMessage(k)

(***************************************************************************)
(* services/openai_signals.get_trade_signal.  A candle frame here has the  *)
(* columns time, close and rsi; a row is [close, rsi], rsi None when NaN.  *)
(* Prices are integers; a product with 0.98 or 1.02 is kept in hundredths  *)
(* (the fields *_x100), confidence in hundredths as well.                  *)
(***************************************************************************)
\* rows of the frames get_trade_signal is called with, frames of up to
\* MaxCandles rows
MaxCandles == 2
Closes == {100, 250}
RsiValues == {None, Some(55)}
CandleRows == [close : Closes, rsi : RsiValues]
CandleFrames == UNION {[1..n -> CandleRows] : n \in 0..MaxCandles}

NoArgs == [api_key |-> None, candles |-> <<>>, horizon |-> None,
           analysis_interval |-> None]

SignalInit ==
    /\ spc = "idle"
    /\ sargs = NoArgs
    /\ sfail = "none"
    /\ sres = None
    /\ sraised = None

\* candles.iloc[-1] / candles["close"].iloc[-1]
Last(candles) == candles[Len(candles)]

\* "a or b or c" over optional texts
OrElse(a, b) == IF a # None THEN Val(a) ELSE b

\* last_indicators: the non-NaN indicator columns of the last row, and the
\* trend, "sideways" for a frame without sma_20, sma_50 and ema_200
last_indicators(candles) ==
    [rsi |-> Last(candles).rsi, trend |-> "sideways"]

\* "if not api_key: return {"error": "Missing API_KEY_OPENAI"}"
MissingKeyResult == [error |-> "Missing API_KEY_OPENAI"]

\* the fallback dict of "except Exception as e"
Fallback(candles, horizon, analysis_interval, e) ==
    LET last_close == Last(candles).close
    IN [signal |-> "HOLD",
        confidence_x100 |-> 20,
        entry_price_x100 |-> last_close * 100,
        stop_loss_x100 |-> last_close * 98,
        take_profit_x100 |-> last_close * 102,
        timeframe |-> OrElse(horizon, OrElse(analysis_interval, "unspecified")),
        reasoning |-> <<"AI temporarily unavailable:", e>>,
        indicators |-> last_indicators(candles),
        caveats |-> <<"This is a fallback, not a prediction.">>]

\* the directions the model's LLM answers with
Directions == {"buy", "Sell ", "hold", "long"}

\* direction = (parsed.direction or "hold").strip().upper(), HOLD when it
\* is none of BUY, SELL, HOLD
NormalizeDirection(direction) ==
    CASE direction = "buy" -> "BUY"
      [] direction = "Sell " -> "SELL"
      [] direction = "hold" -> "HOLD"
      [] OTHER -> "HOLD"

\* the result dict built from a parsed TradeSignal
Adapted(candles, direction) ==
    [signal |-> NormalizeDirection(direction),
     indicators |-> last_indicators(candles)]

\* get_trade_signal(...), up to the construction of the client
GetTradeSignal(api_key, candles, horizon, analysis_interval) ==
    /\ spc = "idle"
    /\ sargs' = [api_key |-> api_key, candles |-> candles, horizon |-> horizon,
                 analysis_interval |-> analysis_interval]
    /\ sraised' = None
    /\ IF api_key = None
       THEN /\ sfail' = "missing_key"
            /\ sres' = Some(MissingKeyResult)
            /\ spc' = "done"
       ELSE /\ sfail' = "none"
            /\ sres' = None
            /\ spc' = "client"
    /\ UNCHANGED <<candleVars, relayVars, runnerVars, indVars>>

\* client = OpenAI(api_key=api_key), which may raise, then
\* last = candles.iloc[-1], which raises IndexError on an empty frame;
\* neither is inside a try
MakeClient ==
    /\ spc = "client"
    /\ \/ /\ sfail' = "client"
          /\ sraised' = Some("OpenAIError")
          /\ spc' = "done"
       \/ /\ sargs.candles = <<>>
          /\ sfail' = "empty_frame"
          /\ sraised' = Some("IndexError")
          /\ spc' = "done"
       \/ /\ sargs.candles # <<>>
          /\ sfail' = sfail
          /\ sraised' = sraised
          /\ spc' = "llm"
    /\ UNCHANGED <<sargs, sres>>
    /\ UNCHANGED <<candleVars, relayVars, runnerVars, indVars>>

\* the try block: client.beta.chat.completions.parse(...) and msg.parsed.
\* The call or its parsing raises (fallback), or the message carries a
\* TradeSignal, or it carries a refusal and msg.parsed is None, and
\* parsed.direction after the try raises AttributeError.
LLMCall ==
    /\ spc = "llm"
    /\ \/ \E e \in {"APIError", "ValidationError"} :
             /\ sfail' = "llm"
             /\ sres' = Some(Fallback(sargs.candles, sargs.horizon,
                                      sargs.analysis_interval, e))
             /\ sraised' = sraised
       \/ \E direction \in Directions :
             /\ sfail' = sfail
             /\ sres' = Some(Adapted(sargs.candles, direction))
             /\ sraised' = sraised
       \/ /\ sfail' = "refusal"
          /\ sres' = sres
          /\ sraised' = Some("AttributeError")
    /\ spc' = "done"
    /\ UNCHANGED sargs
    /\ UNCHANGED <<candleVars, relayVars, runnerVars, indVars>>

\* the caller has the outcome; the next call may start
SignalReturn ==
    /\ spc = "done"
    /\ spc' = "idle"
    /\ sargs' = NoArgs
    /\ sfail' = "none"
    /\ sres' = None
    /\ sraised' = None
    /\ UNCHANGED <<candleVars, relayVars, runnerVars, indVars>>

SignalNext ==
    \/ \E k \in {None, Some("sk-key")}, candles \in CandleFrames,
          h \in {None, Some("1d")}, a \in {None, Some("day")} :
          GetTradeSignal(k, candles, h, a)
    \/ MakeClient
    \/ LLMCall
    \/ SignalReturn

(***************************************************************************)
(* services/indicators.  A pandas Series is a sequence of cells, row i of  *)
(* the frame at index i + 1.  A cell is NaN or a number; a number is the   *)
(* exact fraction <<numerator, denominator>> in lowest terms, so that      *)
(* "== 0" and the comparisons of the code are decided exactly.             *)
(***************************************************************************)
NaN == <<>>

RECURSIVE Gcd(_, _)
Gcd(a, b) == IF b = 0 THEN a ELSE Gcd(b, a % b)

Abs(n) == IF n < 0 THEN -n ELSE n

\* the number n / d, d # 0, in lowest terms with a positive denominator
Num(n, d) ==
    LET g == Gcd(Abs(n), Abs(d))
        s == IF d < 0 THEN -1 ELSE 1
    IN <<(s * n) \div g, (s * d) \div g>>

Float(n) == <<n, 1>>

\* arithmetic of Series cells: NaN in, NaN out
Add(x, y) ==
    IF x = NaN \/ y = NaN THEN NaN ELSE Num(x[1] * y[2] + y[1] * x[2], x[2] * y[2])
Sub(x, y) ==
    IF x = NaN \/ y = NaN THEN NaN ELSE Num(x[1] * y[2] - y[1] * x[2], x[2] * y[2])
Mul(x, y) ==
    IF x = NaN \/ y = NaN THEN NaN ELSE Num(x[1] * y[1], x[2] * y[2])
\* x / y for a y that is not 0 (the code replaces 0 by NaN before it divides)
Div(x, y) ==
    IF x = NaN \/ y = NaN THEN NaN ELSE Num(x[1] * y[2], x[2] * y[1])
AbsCell(x) == IF x = NaN THEN NaN ELSE <<Abs(x[1]), x[2]>>
\* comparisons: False when either side is NaN
Gt(x, y) == x # NaN /\ y # NaN /\ x[1] * y[2] > y[1] * x[2]
Lt(x, y) == Gt(y, x)
\* max(axis=1) of a row, skipna=True: NaN only when every cell is NaN
Max2(x, y) ==
    IF x = NaN THEN y ELSE IF y = NaN THEN x ELSE IF Gt(y, x) THEN y ELSE x

\* a Series with its cells computed
Series(cells) == cells \o <<>>

\* Series.shift(1)
Shift(s) == Series([i \in DOMAIN s |-> IF i = 1 THEN NaN ELSE s[i - 1]])
\* Series.diff()
Diff(s) == LET shifted == Shift(s) IN Series([i \in DOMAIN s |-> Sub(s[i], shifted[i])])
\* Series.replace(0, np.nan)
ReplaceZero(s) == Series([i \in DOMAIN s |-> IF s[i] = Float(0) THEN NaN ELSE s[i]])

\* the sum of s[from..to], NaN when a cell of it is NaN
RECURSIVE WindowSum(_, _, _)
WindowSum(s, from, to) ==
    IF from > to THEN Float(0) ELSE Add(WindowSum(s, from, to - 1), s[to])

\* the cells of s[from..to] that are not NaN
Valid(s, from, to) == {j \in from..to : j >= 1 /\ s[j] # NaN}

RECURSIVE SumOver(_, _)
SumOver(s, rows) ==
    IF rows = {} THEN Float(0)
    ELSE LET j == CHOOSE k \in rows : TRUE IN Add(s[j], SumOver(s, rows \ {j}))

\* rolling(window, min_periods=1).mean(): the mean of the values the window
\* holds, however few
RollingMean_MinPeriods1(s, window) ==
    Series([i \in DOMAIN s |->
               LET rows == Valid(s, i - window + 1, i)
               IN IF rows = {} THEN NaN
                  ELSE Div(SumOver(s, rows), Float(Cardinality(rows)))])

\* Series.rolling(window).mean(): min_periods is the window, so a row has a
\* value only when the window is full and holds no NaN
RollingMean(s, window) ==
    Series([i \in DOMAIN s |->
               IF i < window THEN NaN
               ELSE Div(WindowSum(s, i - window + 1, i), Float(window))])

\* Series.rolling(window).std() squared (ddof = 1)
RollingVar(s, window) ==
    LET sq == Series([j \in DOMAIN s |-> Mul(s[j], s[j])])
    IN Series([i \in DOMAIN s |->
                  IF i < window THEN NaN
                  ELSE LET sum == WindowSum(s, i - window + 1, i)
                           sumsq == WindowSum(sq, i - window + 1, i)
                       IN Div(Sub(sumsq, Div(Mul(sum, sum), Float(window))),
                              Float(window - 1))])

\* a float result rounded to thousandths
Round(x) ==
    IF x = NaN THEN NaN
    ELSE Num((x[1] \div x[2]) * 1000 + ((x[1] % x[2]) * 1000) \div x[2], 1000)

\* Series.ewm(span=span, adjust=False).mean(): min_periods is 0, the first
\* row is the first value, then y[i] = (1 - a) * y[i-1] + a * x[i] with
\* a = 2 / (span + 1); the running value is rounded as a float is
RECURSIVE EwmMean(_, _, _)
EwmMean(s, span, n) ==
    IF n = 0 THEN <<>>
    ELSE IF n = 1 THEN <<s[1]>>
    ELSE LET prev == EwmMean(s, span, n - 1)
             y == IF s[n] = NaN THEN prev[n - 1]
                  ELSE IF prev[n - 1] = NaN THEN s[n]
                  ELSE Round(Div(Add(Mul(Float(span - 1), prev[n - 1]),
                                     Mul(Float(2), s[n])),
                                 Float(span + 1)))
         IN Append(prev, y)

\* _ema with min_periods = span: no value before span rows
_ema_MinPeriods(series, span) ==
    [i \in DOMAIN series |->
        IF i < span THEN NaN ELSE EwmMean(series, span, Len(series))[i]]

\* indicators._ema
_ema(series, span) == EwmMean(series, span, Len(series))

\* a column of the frame as a Series
Column(frame, name) == Series([i \in DOMAIN frame |-> Float(frame[i][name])])

\* Series.where(cond, 0.0): the cell where cond holds, 0.0 elsewhere
WhereElseZero(s, cond) ==
    Series([i \in DOMAIN s |-> IF cond[i] THEN s[i] ELSE Float(0)])

\* indicators._rsi: gain and loss are the rolling means of the positive and
\* the negated negative part of diff(); the first row of diff() is NaN, for
\* which both where() calls put 0.0.  rs = gain / (loss + 1e-12) and
\* rsi = 100 - 100 / (1 + rs): the 1e-12 is below the resolution of the
\* numbers here, so a row's rsi is given up to it, 100 * gain / (gain + loss),
\* and 0 where gain and loss are both 0
_rsi(series, period) ==
    LET delta == Diff(series)
        gain == RollingMean(
                    WhereElseZero(delta, [i \in DOMAIN delta |-> Gt(delta[i], Float(0))]),
                    period)
        loss == RollingMean(
                    WhereElseZero(Series([i \in DOMAIN delta |-> Sub(Float(0), delta[i])]),
                                  [i \in DOMAIN delta |-> Lt(delta[i], Float(0))]),
                    period)
    IN Series([i \in DOMAIN series |->
                  IF gain[i] = NaN \/ loss[i] = NaN THEN NaN
                  ELSE IF Add(gain[i], loss[i]) = Float(0) THEN Float(0)
                  ELSE Div(Mul(Float(100), gain[i]), Add(gain[i], loss[i]))])

\* tr = max(|high - low|, |high - prev_close|, |low - prev_close|)
TrueRange(high, low, close) ==
    LET prev_close == Shift(close)
    IN Series([i \in DOMAIN close |->
                  Max2(Max2(AbsCell(Sub(high[i], low[i])),
                            AbsCell(Sub(high[i], prev_close[i]))),
                       AbsCell(Sub(low[i], prev_close[i])))])

\* s.shift(1) - s
ShiftSub(s) == LET shifted == Shift(s) IN Series([i \in DOMAIN s |-> Sub(shifted[i], s[i])])

\* plus_dm = high - high.shift(1), kept where (plus_dm > minus_dm) & (plus_dm > 0)
PlusDM(high, low) ==
    LET plus_dm == Diff(high)
        minus_dm == ShiftSub(low)
    IN WhereElseZero(plus_dm,
           [i \in DOMAIN high |-> Gt(plus_dm[i], minus_dm[i]) /\ Gt(plus_dm[i], Float(0))])

\* minus_dm = low.shift(1) - low, kept where (minus_dm > plus_dm) & (minus_dm > 0),
\* plus_dm being the Series PlusDM has already filtered
MinusDM(high, low) ==
    LET plus_dm == PlusDM(high, low)
        minus_dm == ShiftSub(low)
    IN WhereElseZero(minus_dm,
           [i \in DOMAIN low |-> Gt(minus_dm[i], plus_dm[i]) /\ Gt(minus_dm[i], Float(0))])

\* mean + k * std, std given by its square
Band(mean, k, var) ==
    IF mean = NaN \/ var = NaN THEN NaN ELSE [mean |-> mean, k |-> k, var |-> var]

\* plus_di / minus_di = 100 * (dm.rolling(14).mean() / atr.replace(0, np.nan))
DirectionalIndicator(dm, atr) ==
    LET mean == RollingMean(dm, 14)
        denominator == ReplaceZero(atr)
    IN Series([i \in DOMAIN dm |-> Mul(Float(100), Div(mean[i], denominator[i]))])

\* dx = 100 * (plus_di - minus_di).abs() / (plus_di + minus_di).replace(0, np.nan)
DX(plus_di, minus_di) ==
    LET denominator ==
            ReplaceZero(Series([i \in DOMAIN plus_di |-> Add(plus_di[i], minus_di[i])]))
    IN Series([i \in DOMAIN plus_di |->
                  Div(Mul(Float(100), AbsCell(Sub(plus_di[i], minus_di[i]))),
                      denominator[i])])

\* add_indicators with the rows of the warm-up dropped
add_indicators_DropWarmup(frame) ==
    IF frame = <<>> THEN frame ELSE Tail(frame)

\* add_indicators: the frame itself when it is empty, else a copy with the
\* derived columns added
add_indicators(frame) ==
    IF frame = <<>> THEN frame
    ELSE LET close == Column(frame, "close")
             high == Column(frame, "high")
             low == Column(frame, "low")
             sma_20 == RollingMean(close, 20)
             sma_50 == RollingMean(close, 50)
             ema_12 == _ema(close, 12)
             ema_26 == _ema(close, 26)
             rsi == _rsi(close, 14)
             macd == Series([i \in DOMAIN frame |-> Sub(ema_12[i], ema_26[i])])
             macd_signal == _ema(macd, 9)
             rolling_mean == RollingMean(close, 20)
             rolling_var == RollingVar(close, 20)
             atr_14 == RollingMean(TrueRange(high, low, close), 14)
             plus_di == DirectionalIndicator(PlusDM(high, low), atr_14)
             minus_di == DirectionalIndicator(MinusDM(high, low), atr_14)
             adx_14 == RollingMean(DX(plus_di, minus_di), 14)
             ema_200 == _ema(close, 200)
         IN [i \in DOMAIN frame |->
               [time |-> frame[i].time, open |-> frame[i].open,
                high |-> frame[i].high, low |-> frame[i].low,
                close |-> frame[i].close, volume |-> frame[i].volume,
                sma_20 |-> sma_20[i], sma_50 |-> sma_50[i],
                ema_12 |-> ema_12[i], ema_26 |-> ema_26[i],
                rsi |-> rsi[i], macd |-> macd[i], macd_signal |-> macd_signal[i],
                bb_mid |-> rolling_mean[i],
                bb_upper |-> Band(rolling_mean[i], 2, rolling_var[i]),
                bb_lower |-> Band(rolling_mean[i], -2, rolling_var[i]),
                atr_14 |-> atr_14[i], adx_14 |-> adx_14[i],
                ema_200 |-> ema_200[i]]]

(***************************************************************************)
(* The frames add_indicators is called with: every frame of up to MaxShort *)
(* bars with prices 1..MaxPrice, and the first n <= MaxBars bars of the    *)
(* price series of Patterns.                                               *)
(***************************************************************************)
MaxShort == 2
MaxPrice == 3
MaxBars == 51

Bar(i, high, low, close) ==
    [time |-> i, open |-> close, high |-> high, low |-> low, close |-> close,
     volume |-> 10 * i]

\* <<high, low, close>> with low <= close <= high
SmallBars ==
    {hlc \in (1..MaxPrice) \X (1..MaxPrice) \X (1..MaxPrice) :
        hlc[2] <= hlc[3] /\ hlc[3] <= hlc[1]}

ShortFrames ==
    {[i \in DOMAIN f |-> Bar(i, f[i][1], f[i][2], f[i][3])] :
        f \in UNION {[1..n -> SmallBars] : n \in 0..MaxShort}}

Patterns == {"flat", "range", "rising", "falling", "zigzag", "widening", "late"}

\* bar i (from 1) of a pattern
PatternBar(pattern, i) ==
    CASE pattern = "flat" -> Bar(i, 100, 100, 100)
      [] pattern = "range" -> Bar(i, 101, 99, 100)
      [] pattern = "rising" -> Bar(i, 99 + i, 99 + i, 99 + i)
      [] pattern = "falling" -> Bar(i, 200 - i, 200 - i, 200 - i)
      [] pattern = "zigzag" -> Bar(i, 101 + 2 * (i % 2), 99 + 2 * (i % 2), 100 + 2 * (i % 2))
      [] pattern = "widening" -> Bar(i, 100 + i, 100 - i, 100)
      [] pattern = "late" -> IF i <= 20 THEN Bar(i, 100, 100, 100)
                             ELSE Bar(i, 81 + i, 79 + i, 80 + i)

LongFrames ==
    {[i \in 1..n |-> PatternBar(pattern, i)] : pattern \in Patterns, n \in 0..MaxBars}

InputFrames == ShortFrames \cup LongFrames

IndicatorInit ==
    /\ ipc = "idle"
    /\ df = <<>>
    /\ out = <<>>

\* df = add_indicators(df), as /signal calls it
AddIndicators(frame) ==
    /\ ipc = "idle"
    /\ df' = frame
    /\ out' = add_indicators(frame)
    /\ ipc' = "done"
    /\ UNCHANGED <<candleVars, relayVars, runnerVars, signalVars>>

\* the caller has the frame; the next call may start
IndicatorsReturn ==
    /\ ipc = "done"
    /\ ipc' = "idle"
    /\ df' = <<>>
    /\ out' = <<>>
    /\ UNCHANGED <<candleVars, relayVars, runnerVars, signalVars>>

IndicatorNext ==
    \/ \E frame \in InputFrames : AddIndicators(frame)
    \/ IndicatorsReturn

vars == <<candleVars, relayVars, runnerVars, signalVars, indVars>>

Init == CandleInit /\ RelayInit /\ RunnerInit /\ SignalInit /\ IndicatorInit

SpecCandles == Init /\ [][CandleNext]_vars

SpecRelay == Init /\ [][RelayNext]_vars

SpecRunner == Init /\ [][RunnerNext]_vars

SpecSignal == Init /\ [][SignalNext]_vars

SpecIndicators == Init /\ [][IndicatorNext]_vars

(***************************************************************************)
(* Claims about the historical request surface (checked under SpecCandles).*)
(* Dates are taken around DateBase, where every lookback floor             *)
(* to_date - (L - 1) days is a date datetime.date can represent.           *)
(***************************************************************************)
Range(seq) == {seq[i] : i \in DOMAIN seq}

\* the policy table as the specification states it
MaxLookbackStated(interval) ==
    CASE interval \in {"day", "week", "month"} -> 3650
      [] interval = "30minute" -> 90
      [] interval = "1minute" -> 30

\* /candles has called get_historical_candles for the request in body
RangePassed == body.entry = "candles" /\ fetch # NoFetch
EffectiveFrom == ParseIso(Val(fetch.from_date))
EffectiveTo == ParseIso(fetch.to_date)

\* C1: for every recognized interval and every to_date and from_date, the
\* range /candles passes to the historical fetch has effective_from <=
\* effective_to and spans at most max_lookback(interval) - 1 days.
C1_RangeWithinLookback ==
    RangePassed =>
        /\ fetch.from_date # None
        /\ EffectiveFrom <= EffectiveTo
        /\ EffectiveTo - EffectiveFrom <= MaxLookbackStated(body.interval) - 1

\* a request whose from_date lies before the lookback floor was passed on,
\* clamped to the full window
C1_Witness ==
    /\ RangePassed
    /\ body.from_date # None
    /\ Val(body.from_date) < body.to_date - (MaxLookbackStated(body.interval) - 1)
    /\ EffectiveTo - EffectiveFrom = MaxLookbackStated(body.interval) - 1

\* C2: with from_date = a later than to_date = b the handler raises no error
\* and passes exactly the range it passes for from_date = b, to_date = a.
C2_SwapSymmetric ==
    (/\ body.entry = "candles"
     /\ body.interval \in Intervals
     /\ body.from_date # None
     /\ Val(body.from_date) > body.to_date)
    => /\ resp.status # "invalid_interval"
       /\ fetch # NoFetch
       /\ LET unswapped == NormalizeDates(body.interval, Some(body.to_date),
                                          Val(body.from_date))
          IN /\ fetch.from_date = Some(IsoFormat(unswapped[1]))
             /\ fetch.to_date = IsoFormat(unswapped[2])

\* a request with from_date later than to_date was passed on
C2_Witness ==
    /\ RangePassed
    /\ body.from_date # None
    /\ Val(body.from_date) > body.to_date
    /\ EffectiveTo = Val(body.from_date)
    /\ EffectiveFrom = body.to_date

\* C3: a historical request with an unrecognized interval tag is rejected as
\* an invalid interval and no provider HTTP request is issued for it, on
\* /candles and on the standalone client's get_historical_candles alike.
C3_UnrecognizedRejected ==
    (body.entry # "none" /\ body.interval \notin Intervals)
    => /\ httpLog = <<>>
       /\ cpc = "done" => resp.status = "invalid_interval"

\* the lookback floor of the request in body
LookbackFloor == body.to_date - (MaxLookbackStated(body.interval) - 1)

NoSessionToken ==
    \/ body.entry = "candles" /\ fetch # NoFetch /\ access_token = None
    \/ body.entry = "client" /\ client_token = None

\* C12: a historical fetch made while no session token is set fails after a
\* single attempt: the missing-credential failure is surfaced to the caller
\* and not retried.
C12_MissingTokenNotRetried ==
    NoSessionToken =>
        /\ attempts <= 1
        /\ attempts = 1 => (cpc = "done" /\ resp.status = "error")

\* the fetch in body succeeded: resp holds the normalized rows of payload
Normalized == cpc = "done" /\ resp.status = "ok"

\* C15: normalizing zero provider rows gives an empty sequence without
\* error, and rows with distinct timestamps, in whatever order the provider
\* sent them, give the one strictly time-ascending sequence of these rows.
C15_SortedAnyPermutation ==
    Normalized =>
        /\ payload = <<>> => resp.candles = <<>>
        /\ Cardinality(Range(payload)) = Len(payload) =>
              /\ Len(resp.candles) = Len(payload)
              /\ Range(resp.candles) = Range(payload)
              /\ \A i \in 1..(Len(resp.candles) - 1) :
                    resp.candles[i] < resp.candles[i + 1]

\* the provider sent two rows, the later one first, and the caller got
\* them in time order
C15_Witness ==
    /\ Normalized
    /\ Len(payload) = 2
    /\ payload[1] > payload[2]
    /\ resp.candles = <<payload[2], payload[1]>>

\* C16: the bar sequence of a fetch never holds two bars with the same
\* timestamp: repeated timestamps of the provider rows are de-duplicated.
C16_NoDuplicateTimestamps ==
    Normalized =>
        \A i, j \in DOMAIN resp.candles :
            i # j => resp.candles[i] # resp.candles[j]

\* /candles has answered the request in body after calling the fetch
CandlesAnswered == RangePassed /\ cpc = "done"

\* C21: /candles tells the two outcomes apart: a provider fetch that
\* succeeds with zero rows gives a success response with an empty candle
\* list, and a fetch that fails on every attempt (HTTP error, unreachable,
\* missing token) gives an error, never an empty candle list.
C21_EmptyIsNotError ==
    CandlesAnswered =>
        /\ (outcomes[Len(outcomes)] = "ok" /\ payload = <<>>) =>
              resp = [status |-> "ok", candles |-> <<>>]
        /\ (\A i \in DOMAIN outcomes : outcomes[i] = "failed") =>
              /\ resp.status = "error"
              /\ resp # [status |-> "ok", candles |-> <<>>]

\* after a failed attempt the provider answered with zero rows, and /candles
\* returned the empty candle list
C21_Witness ==
    /\ CandlesAnswered
    /\ outcomes = <<"failed", "ok">>
    /\ payload = <<>>
    /\ resp = [status |-> "ok", candles |-> <<>>]

\* C23: one call of get_historical_candles makes at most 3 attempts; it
\* returns the result of the first attempt that succeeds and makes no
\* provider request after it; when all 3 attempts fail it ends with an error
\* instead of retrying on.
C23_AtMostThreeAttempts ==
    /\ attempts = Len(outcomes)
    /\ attempts <= 3
    /\ Len(httpLog) <= attempts
    /\ cpc \in {"fetch", "cfetch"} =>
          /\ attempts < 3
          /\ \A i \in DOMAIN outcomes : outcomes[i] = "failed"
    /\ \A i \in DOMAIN outcomes :
          outcomes[i] = "ok" =>
              /\ i = Len(outcomes)
              /\ cpc = "done"
              /\ resp = [status |-> "ok", candles |-> SortByTime(payload)]
    /\ (cpc = "done" /\ outcomes # <<>> /\
        \A i \in DOMAIN outcomes : outcomes[i] = "failed") =>
          /\ attempts = 3
          /\ resp.status = "error"

\* the third attempt succeeded after two failures and its result was returned
C23_Witness ==
    /\ cpc = "done"
    /\ outcomes = <<"failed", "failed", "ok">>
    /\ Len(httpLog) = 3
    /\ resp.status = "ok"

(***************************************************************************)
(* Claims about the /ws/ltp_v3 relay (checked under SpecRelay).            *)
(***************************************************************************)
\* the runs that hold an upstream connection for instrument_key k
Holding(k) == {c \in Clients : winst[c] = Some(k) /\ up[c] \in {"open", "lost"}}

\* the runs that are streaming instrument_key k
Streaming(k) ==
    {c \in Clients : winst[c] = Some(k) /\ wpc[c] \in {"subscribe", "recv", "send"}}

SendFails(c) == wpc[c] = "send" /\ peer[c] = "gone" /\ wpc'[c] # "send"

StreamClosed == [feed |-> -1]

\* the run of c ended because its upstream connection was lost
EndedOnUpstreamLoss(c) ==
    wpc[c] = "returned" /\ <<"Stream error:", "ConnectionClosed">> \in Range(printed[c])

RECURSIVE EventsOf(_, _)
EventsOf(frames, n) ==
    IF n = 0 THEN <<>>
    ELSE EventsOf(frames, n - 1) \o
         (IF frames[n][1] = "pb" THEN <<[feed |-> frames[n][2]]>> ELSE <<>>)

C9_ClosedWhenLastSinkLeaves ==
    \A c \in Clients :
        (peer[c] = "gone" /\ wpc[c] = "recv" /\ queue[c] = <<>>) => up[c] # "open"

\* frames of its connection that run c has read
FramesRead(c) == Len(sentUp[c]) - Len(queue[c])

\* C10: the loop handles one frame at a time: what the client was sent is,
\* in order and without gap or repetition, the events of the first frames of
\* the connection, and at most one frame that was read is not yet sent.
C10_OneFrameAtATime ==
    \A c \in Clients :
        /\ queue[c] = SubSeq(sentUp[c], FramesRead(c) + 1, Len(sentUp[c]))
        /\ delivered[c] = [i \in 1..Len(delivered[c]) |-> [feed |-> i]]
        /\ \A i \in 1..Len(delivered[c]) : sentUp[c][i] = Frame("pb", i)
        /\ FramesRead(c) - Len(delivered[c]) \in {0, 1}
        /\ wpc[c] = "send" =>
              /\ FramesRead(c) = Len(delivered[c]) + 1
              /\ cur[c] = [feed |-> FramesRead(c)]

\* two frames of one connection reached the client, in their order of arrival
C10_Witness ==
    \E c \in Clients :
        /\ Len(delivered[c]) = 2
        /\ delivered[c][1] = [feed |-> 1]
        /\ delivered[c][2] = [feed |-> 2]

\* the step of run c in which upstream.recv() hands out a frame that
\* decode_protobuf cannot parse
ReadsMalformed(c) ==
    /\ wpc[c] = "recv"
    /\ queue[c] # <<>>
    /\ ~Decodes(NextFrame(queue[c]))
    /\ queue'[c] = Tail(queue[c])

\* C11: a single upstream frame that fails to decode is skipped: the loop
\* goes on to the next recv(), the upstream connection and the client socket
\* stay open, and nothing is closed.
C11_MalformedFrameSkipped ==
    [][\A c \in Clients :
          ReadsMalformed(c) =>
              /\ wpc'[c] = "recv"
              /\ up'[c] = up[c]
              /\ upClosed'[c] = upClosed[c]
              /\ wsClose'[c] = wsClose[c]]_vars

\* the run of client c was made without instrument_key or access_token
MissingParameter(c) == wpc[c] # "idle" /\ (winst[c] = None \/ wtoken[c] = None)

\* C24: every run of ws_ltp_v3 that opened an upstream connection has closed
\* it when the handler ends, whatever ended the relay loop; and a run without
\* instrument_key or access_token closes the client socket with code 1003,
\* makes no authorization exchange and opens no upstream connection.
C24_UpstreamClosedAtReturn ==
    \A c \in Clients :
        /\ (wpc[c] = "returned" /\ upOpened[c] >= 1) =>
              /\ up[c] = "closed"
              /\ upClosed[c] = upOpened[c]
        /\ wpc[c] = "returned" => up[c] \notin {"open", "lost"}
        /\ MissingParameter(c) =>
              /\ wpc[c] = "returned"
              /\ wsClose[c] = <<1003>>
              /\ auths[c] = 0
              /\ upOpened[c] = 0
              /\ up[c] = "none"

\* one run has ended on a frame that did not decode, its upstream connection
\* closed, and another was refused with 1003 for a missing parameter
C24_Witness ==
    \E c, d \in Clients :
        /\ wpc[c] = "returned"
        /\ upOpened[c] = 1
        /\ up[c] = "closed"
        /\ printed[c][Len(printed[c])] = <<"Stream error:", "DecodeError">>
        /\ MissingParameter(d)
        /\ wsClose[d] = <<1003>>

(***************************************************************************)
(* Claims about the stream runners (checked under SpecRunner).             *)
(***************************************************************************)
\* what the callback of a get_stream_runner call has received of the
\* instrument's messages since that call
ReceivedSince(k, call) ==
    SelectSeq(received[call.on_message],
              LAMBDA e : e[1] = k /\ e[2] > call.since)

\* C6: every event of an instrument_key is delivered to every sink registered
\* for it: each callback handed to get_stream_runner has received all the
\* instrument's messages since its registration, in order.
C6_EverySinkReceives ==
    \A k \in Instruments :
        \A i \in DOMAIN registered[k] :
            ReceivedSince(k, registered[k][i]) =
                [n \in 1..(streamed[k] - registered[k][i].since) |->
                    <<k, registered[k][i].since + n>>]

\* C22: under every interleaving of concurrent get_stream_runner calls for
\* one instrument_key, exactly one runner is created and started for the key
\* and every caller gets that runner: two connection threads are never
\* started for one key.
C22_OneRunnerPerKey ==
    \A k \in Instruments :
        /\ threads[k] <= 1
        /\ Len(runners[k]) <= 1
        /\ \A i, j \in DOMAIN registered[k] :
              (registered[k][i].runner # NoRunner /\
               registered[k][j].runner # NoRunner) =>
                  registered[k][i].runner = registered[k][j].runner

\* C25: once get_stream_runner has created a runner for an instrument_key,
\* the _ws_cache entry of the key is never removed or replaced: from then on
\* the key keeps its runner, no further thread is started for it and the
\* runner keeps the on_message it was created with, even when its connection
\* thread has failed.
C25_EntryNeverReplaced ==
    [][\A k \in Instruments :
          ws_cache[k] # NoRunner =>
              /\ ws_cache'[k] = ws_cache[k]
              /\ threads'[k] = threads[k]
              /\ runners'[k][ws_cache[k]].on_message =
                    runners[k][ws_cache[k]].on_message]_vars

(***************************************************************************)
(* Claims about get_trade_signal (checked under SpecSignal).               *)
(***************************************************************************)
\* r is a well-formed fallback: direction HOLD, low confidence, a stop/target
\* band around the entry price, and an annotation that names the error
WellFormedFallback(r) ==
    /\ {"signal", "confidence_x100", "entry_price_x100", "stop_loss_x100",
        "take_profit_x100", "reasoning"} \subseteq DOMAIN r
    /\ r.signal = "HOLD"
    /\ r.confidence_x100 < 50
    /\ r.stop_loss_x100 < r.entry_price_x100
    /\ r.entry_price_x100 < r.take_profit_x100
    /\ sargs.candles # <<>> =>
          r.entry_price_x100 = 100 * sargs.candles[Len(sargs.candles)].close

\* C13: get_trade_signal never raises to its caller, and on every internal
\* failure (missing API key, client construction failure, empty candle
\* frame, LLM call or parse failure) it returns a well-formed fallback with
\* direction HOLD, low confidence, a band anchored on the last close and an
\* error annotation.
C13_NeverRaisesFallback ==
    spc = "done" =>
        /\ sraised = None
        /\ sres # None
        /\ sfail # "none" => WellFormedFallback(Val(sres))

(***************************************************************************)
(* Claims about add_indicators (checked under SpecIndicators).             *)
(***************************************************************************)
BarFields == {"time", "open", "high", "low", "close", "volume"}

\* C14: add_indicators returns exactly one row per input bar, in the same
\* order and with the bar's fields unchanged, for every input length; for an
\* empty frame it returns the frame unchanged.
C14_OneRowPerBar ==
    ipc = "done" =>
        /\ Len(out) = Len(df)
        /\ df = <<>> => out = df
        /\ \A i \in DOMAIN df : \A field \in BarFields : out[i][field] = df[i][field]

\* a frame of 50 bars came back with its 50 rows, the last with its sma_50
C14_Witness ==
    /\ ipc = "done"
    /\ Len(df) = 50
    /\ Len(out) = 50
    /\ out[50].time = df[50].time
    /\ out[50].sma_50 # NaN

\* the lookback of the derived fields as the specification states it: the
\* window of the rolling fields and the period of the exponential averages
LookbackStated ==
    [sma_20 |-> 20, sma_50 |-> 50, bb_mid |-> 20, bb_upper |-> 20,
     bb_lower |-> 20, atr_14 |-> 14, ema_12 |-> 12, ema_26 |-> 26,
     ema_200 |-> 200]

\* field is unavailable in the rows 0..n-2 of out and available from row n-1
AvailableFromRow(field, n) ==
    \A i \in DOMAIN out : (out[i][field] = NaN) <=> (i < n)

\* C17 as stated: every derived field with an N-row lookback is unavailable
\* at rows 0..N-2 and available at row N-1; SMA-20 and SMA-50 are
\* unavailable until their windows are filled and ema_200 is absent for the
\* first 199 rows.
C17_AsStated ==
    (ipc = "done" /\ df # <<>>) =>
        \A field \in DOMAIN LookbackStated :
            AvailableFromRow(field, LookbackStated[field])

\* the fields computed over a rolling window, with the window
RollingWindow ==
    [sma_20 |-> 20, sma_50 |-> 50, bb_mid |-> 20, bb_upper |-> 20,
     bb_lower |-> 20, atr_14 |-> 14]

\* the fields computed by _ema
Exponential == {"ema_12", "ema_26", "macd", "macd_signal", "ema_200"}

\* C17 (amended): every field computed over a rolling window of N rows is
\* unavailable at rows 0..N-2 and available from row N-1; the exponential
\* averages have no lookback: ema_12, ema_26, macd, macd_signal and ema_200
\* are available at every row, from row 0.
C17_WindowedFields ==
    (ipc = "done" /\ df # <<>>) =>
        /\ \A field \in DOMAIN RollingWindow :
              AvailableFromRow(field, RollingWindow[field])
        /\ \A field \in Exponential : AvailableFromRow(field, 1)

\* a frame of at least 50 bars: sma_50 missing at row 48 and present at row
\* 49, ema_200 present at row 0
C17_Witness ==
    /\ ipc = "done"
    /\ Len(out) >= 50
    /\ out[49].sma_50 = NaN
    /\ out[50].sma_50 # NaN
    /\ out[19].sma_20 = NaN
    /\ out[20].sma_20 # NaN
    /\ out[1].ema_200 # NaN

\* df is the frame of 25 bars with the closes 100, 101, ..., 124
Closes100To124 ==
    /\ Len(df) = 25
    /\ \A i \in DOMAIN df : df[i].close = 99 + i

\* C18: for the closes 100, 101, ..., 124, RSI(14) is unavailable at every
\* row 0..13, first available at row 14, and at row 24 (fourteen gains of 1,
\* no losses) it is 100 up to the 1e-12 of the denominator.
C18_RsiExample ==
    (ipc = "done" /\ Closes100To124) =>
        /\ \A i \in 1..14 : out[i].rsi = NaN
        /\ out[15].rsi # NaN
        /\ out[25].rsi = Float(100)

\* the directional movement Series add_indicators computes for df
PlusDMOfDf == PlusDM(Column(df, "high"), Column(df, "low"))
MinusDMOfDf == MinusDM(Column(df, "high"), Column(df, "low"))

\* C19: at every row, with rise = high[i] - high[i-1] and fall = low[i-1] -
\* low[i], plus-DM is rise if rise > fall and rise > 0, else 0, and minus-DM
\* is fall if fall > rise and fall > 0, else 0: at most one of the two is
\* non-zero, and both are 0 on a tie (and in row 0, which has no deltas).
C19_DirectionalMovement ==
    (ipc = "done" /\ df # <<>>) =>
        LET plus_dm == PlusDMOfDf
            minus_dm == MinusDMOfDf
        IN /\ plus_dm[1] = Float(0) /\ minus_dm[1] = Float(0)
           /\ \A i \in 2..Len(df) :
                 LET rise == df[i].high - df[i - 1].high
                     fall == df[i - 1].low - df[i].low
                 IN /\ plus_dm[i] =
                          (IF rise > fall /\ rise > 0 THEN Float(rise) ELSE Float(0))
                    /\ minus_dm[i] =
                          (IF fall > rise /\ fall > 0 THEN Float(fall) ELSE Float(0))
                    /\ plus_dm[i] = Float(0) \/ minus_dm[i] = Float(0)

\* the Series add_indicators computes for df on the way to adx_14
HighOfDf == Column(df, "high")
LowOfDf == Column(df, "low")
AtrOfDf == RollingMean(TrueRange(HighOfDf, LowOfDf, Column(df, "close")), 14)
PlusDIOfDf == DirectionalIndicator(PlusDM(HighOfDf, LowOfDf), AtrOfDf)
MinusDIOfDf == DirectionalIndicator(MinusDM(HighOfDf, LowOfDf), AtrOfDf)
DXOfDf == DX(PlusDIOfDf, MinusDIOfDf)

\* every bar of df has high = low = close = one price
ZeroVolatility ==
    \A i \in DOMAIN df :
        /\ df[i].high = df[i].close /\ df[i].low = df[i].close
        /\ df[i].close = df[1].close

\* C20: where ATR(14) is 0 the directional indicators are unavailable
\* (not 0); where plusDI + minusDI is 0, DX is unavailable; ADX(14) is
\* unavailable at a row whenever one of its 14 trailing DX values is; so for
\* a zero-volatility frame (high = low = close constant) adx_14 is
\* unavailable at every row.
C20_UnavailableNotZero ==
    (ipc = "done" /\ df # <<>>) =>
        LET plus_di == PlusDIOfDf
            minus_di == MinusDIOfDf
            dx == DXOfDf
        IN /\ \A i \in DOMAIN df :
                 /\ out[i].atr_14 = Float(0) =>
                       plus_di[i] = NaN /\ minus_di[i] = NaN
                 /\ Add(plus_di[i], minus_di[i]) = Float(0) => dx[i] = NaN
                 /\ (\E j \in (i - 13)..i : j < 1 \/ dx[j] = NaN) =>
                       out[i].adx_14 = NaN
           /\ ZeroVolatility => \A i \in DOMAIN df : out[i].adx_14 = NaN

\* a frame that is flat for its first 20 bars and moves afterwards: ATR is 0
\* and the directional indicators are missing at row 13, DX is there at row
\* 32 but adx_14 is not, its window still reaching into the flat rows, and
\* adx_14 is there at row 33
C20_Witness ==
    /\ ipc = "done"
    /\ Len(df) >= 34
    /\ out[14].atr_14 = Float(0)
    /\ out[33].adx_14 = NaN
    /\ out[34].adx_14 # NaN
    /\ LET plus_di == PlusDIOfDf
           dx == DXOfDf
       IN plus_di[14] = NaN /\ dx[20] = NaN /\ dx[33] # NaN

====
